---- MODULE Spec2Model ----
(***************************************************************************)
(* Model of read_graphql.py: the AniList seasonal query script.            *)
(*                                                                         *)
(* Python / JSON values are tagged records, so that None, integers,        *)
(* strings and lists can be compared with one another:                     *)
(*   None            [t |-> "None"]                                        *)
(*   int n           [t |-> "int",  v |-> n]                               *)
(*   str s           [t |-> "str",  v |-> s]                               *)
(*   list l          [t |-> "list", v |-> l]                               *)
(* A string whose characters matter (titles, dates, printed text) carries  *)
(* the sequence of its Unicode code points; the enum-like strings of the   *)
(* request parameters carry a TLA+ string.                                 *)
(***************************************************************************)
EXTENDS Integers, Sequences, FiniteSets, TLC

VARIABLES
    Variables,           \* the module-level dict VARIABLES
    pc,                  \* "start" | "awaiting" | "returned" | "exited"
    args,                \* arguments of the current extract_graphql_data call
    history,             \* arguments of every call so far, oldest first
    request,             \* JSON payload of the POST in flight / last sent
    response,            \* [status_code, body] of the last HTTP response
    response_data,       \* local of extract_graphql_data
    extracted_elements,  \* local of process_graphql before the sort
    processed_data,      \* local of extract_graphql_data
    data_set,            \* argument of the last tabulate_anichart_data call
    clipboard,           \* text last handed to pyperclip.copy
    clip_writes,         \* pyperclip.copy calls made by the current call
    stdout,              \* arguments of the print calls of the current call
    trace,               \* functions entered by the current call, in order
    exit_status          \* process exit status once the process has ended

vars == <<Variables, pc, args, history, request, response, response_data,
          extracted_elements, processed_data, data_set, clipboard,
          clip_writes, stdout, trace, exit_status>>

-----------------------------------------------------------------------------
(* Bounds of the model *)

MaxMedia == 2
MaxCalls == 2

-----------------------------------------------------------------------------
(* Python values *)

None == [t |-> "None"]
PyInt(n) == [t |-> "int", v |-> n]
PyStr(s) == [t |-> "str", v |-> s]
PyList(l) == [t |-> "list", v |-> l]

\* Python truth value of an argument: None, 0, "" and [] are falsy.
Truthy(x) ==
    CASE x.t = "None" -> FALSE
      [] x.t = "int"  -> x.v # 0
      [] x.t = "str"  -> x.v # ""
      [] x.t = "list" -> x.v # <<>>

\* str(n) for an integer, as code points.
RECURSIVE Digits(_)
Digits(n) == IF n < 10 THEN <<48 + n>> ELSE Digits(n \div 10) \o <<48 + (n % 10)>>

IntToText(n) == IF n < 0 THEN <<45>> \o Digits(0 - n) ELSE Digits(n)

\* What "{}".format(x) substitutes for x: str(x).
FormatField(x) ==
    CASE x.t = "None" -> <<78, 111, 110, 101>>
      [] x.t = "int"  -> IntToText(x.v)
      [] x.t = "str"  -> x.v

-----------------------------------------------------------------------------
(* Module-level data *)

\* VARIABLES as the module defines it.
DefaultVariables ==
    [status |-> PyList(<<"RELEASING", "NOT_YET_RELEASED">>),
     format |-> PyList(<<"TV", "MOVIE", "TV_SHORT", "OVA", "ONA">>),
     year   |-> PyInt(2024),
     season |-> PyStr("SUMMER")]

QUERY_STRING == "query GetMedia"
GRAPH_QL_URL == "https://graphql.anilist.co/"

Keys == {"status", "format", "year", "season"}

-----------------------------------------------------------------------------
(* query_graphql *)

\* Variant: the body is returned whatever the status is.
query_graphql_any_status(status_code, body) == body

\* The return value of query_graphql for a response: the parsed body on
\* status 200, None otherwise.
query_graphql(status_code, body) ==
    IF status_code = 200 THEN body ELSE None

\* The payload query_graphql posts.
request_data(query, variables, url) ==
    [url |-> url, query |-> query, variables |-> variables]

-----------------------------------------------------------------------------
(* process_graphql *)

Dot == <<46>>

\* "{}.{}.{}".format
start_date_format(a, b, c) ==
    PyStr(FormatField(a) \o Dot \o FormatField(b) \o Dot \o FormatField(c))

\* Variant: the fallback is taken only when all three components are unset.
start_date_str_all_unset(start_date) ==
    IF start_date.year # None \/ start_date.month # None \/ start_date.day # None
    THEN start_date_format(start_date.day, start_date.month, start_date.year)
    ELSE start_date_format(PyInt(1), PyInt(1), PyInt(1999))

start_date_str(start_date) ==
    IF start_date.year # None /\ start_date.month # None /\ start_date.day # None
    THEN start_date_format(start_date.day, start_date.month, start_date.year)
    ELSE start_date_format(PyInt(1), PyInt(1), PyInt(1999))

\* Variant: a present key is converted with str(), so None becomes "None".
title_name_str(title, key) ==
    IF key \in DOMAIN title THEN PyStr(FormatField(title[key])) ELSE PyStr(<<>>)

\* romaji_name / english_name: "" unless the key is present and not None.
title_name(title, key) ==
    IF key \in DOMAIN title /\ title[key] # None THEN title[key] ELSE PyStr(<<>>)

\* The row appended for one element of the media list.
extract_row(element) ==
    <<title_name(element.title, "romaji"),
      title_name(element.title, "english"),
      start_date_str(element.startDate)>>

\* Variant: an entry with neither title is skipped.
RECURSIVE extract_loop_skip_untitled(_, _)
extract_loop_skip_untitled(media, acc) ==
    IF media = <<>> THEN acc
    ELSE LET row == extract_row(Head(media))
         IN  extract_loop_skip_untitled(Tail(media),
                 IF row[1].v = <<>> /\ row[2].v = <<>> THEN acc ELSE Append(acc, row))

\* The for loop: extracted_elements after the elements of media were visited.
RECURSIVE extract_loop(_, _)
extract_loop(media, acc) ==
    IF media = <<>> THEN acc
    ELSE extract_loop(Tail(media), Append(acc, extract_row(Head(media))))

\* Python's < on str: lexicographic by code point, a proper prefix is smaller.
RECURSIVE str_lt(_, _)
str_lt(a, b) ==
    IF b = <<>> THEN FALSE
    ELSE IF a = <<>> THEN TRUE
    ELSE IF Head(a) # Head(b) THEN Head(a) < Head(b)
    ELSE str_lt(Tail(a), Tail(b))

\* The sort key lambda x: x[1] (Python index 1 is the second field).
sort_key(row) == row[2].v

\* Variant: row goes in front of the elements with an equal key.
RECURSIVE insert_before_equal(_, _)
insert_before_equal(row, s) ==
    IF s = <<>> THEN <<row>>
    ELSE IF ~str_lt(sort_key(Head(s)), sort_key(row)) THEN <<row>> \o s
    ELSE <<Head(s)>> \o insert_before_equal(row, Tail(s))

\* One insertion of the stable sort: row goes behind every element whose key
\* is not greater than its own.
RECURSIVE insert_sorted(_, _)
insert_sorted(row, s) ==
    IF s = <<>> THEN <<row>>
    ELSE IF str_lt(sort_key(row), sort_key(Head(s))) THEN <<row>> \o s
    ELSE <<Head(s)>> \o insert_sorted(row, Tail(s))

RECURSIVE sort_loop(_, _)
sort_loop(rest, acc) ==
    IF rest = <<>> THEN acc
    ELSE sort_loop(Tail(rest), insert_sorted(Head(rest), acc))

\* Variant: the rows are returned as extracted.
sorted_identity(rows) == rows

\* sorted(extracted_elements, key=lambda x: x[1])
sorted(rows) == sort_loop(rows, <<>>)

process_graphql(data) ==
    sorted(extract_loop(data.data.Page.media, <<>>))

-----------------------------------------------------------------------------
(* tabulate_anichart_data *)

Separator1 == <<10, 45, 45, 45, 45, 45, 45, 45, 45, 45, 45, 45, 45, 45, 45, 45,
                45, 45, 45, 45, 45, 10>>
Separator2 == <<10, 10, 45, 45, 45, 45, 45, 45, 45, 45, 45, 45, 45, 45, 45, 45,
                45, 45, 45, 45, 45, 45, 10, 10>>
ElementsPrefix == <<69, 108, 101, 109, 101, 110, 116, 115, 58, 32>>
TabSep == <<32, 9, 32>>
LineEnd == <<32, 10>>

\* "{} \t {} \t {} \n".format(*entry)
loop_string(entry) ==
    FormatField(entry[1]) \o TabSep \o FormatField(entry[2]) \o TabSep
        \o FormatField(entry[3]) \o LineEnd

\* Variant: each line is put in front of the text assembled so far.
RECURSIVE string_to_copy_prepend(_, _)
string_to_copy_prepend(rows, acc) ==
    IF rows = <<>> THEN acc
    ELSE string_to_copy_prepend(Tail(rows), loop_string(Head(rows)) \o acc)

RECURSIVE string_to_copy(_, _)
string_to_copy(rows, acc) ==
    IF rows = <<>> THEN acc
    ELSE string_to_copy(Tail(rows), acc \o loop_string(Head(rows)))

\* What tabulate_anichart_data prints, one element per print call.
tabulate_prints(rows) ==
    <<Separator1, string_to_copy(rows, <<>>), Separator2,
      ElementsPrefix \o FormatField(PyInt(Len(rows)))>>

-----------------------------------------------------------------------------
(* extract_graphql_data *)

NoDataMessage == <<78, 111, 32, 100, 97, 116, 97, 32, 114, 101, 116, 117, 114,
                   110, 101, 100, 32, 102, 114, 111, 109, 32, 113, 117, 101, 114,
                   121, 32, 103, 114, 97, 112, 104, 113, 108, 33>>

\* Variant: "if x_var is not None".
override_not_none(old, arg) == IF arg # None THEN arg ELSE old

\* One "if x_var: VARIABLES[key] = x_var".
override(old, arg) == IF Truthy(arg) THEN arg ELSE old

\* Variant: every call starts from the module defaults.
overwrite_defaults(variables, a) ==
    [status |-> override(DefaultVariables.status, a.status_var),
     format |-> override(DefaultVariables.format, a.format_var),
     year   |-> override(DefaultVariables.year,   a.year_var),
     season |-> override(DefaultVariables.season, a.season_var)]

overwrite(variables, a) ==
    [status |-> override(variables.status, a.status_var),
     format |-> override(variables.format, a.format_var),
     year   |-> override(variables.year,   a.year_var),
     season |-> override(variables.season, a.season_var)]

\* The process exit status of exit(code): exit() passes None.
exit_code(code) ==
    CASE code.t = "None" -> PyInt(0)
      [] code.t = "int"  -> PyInt(code.v % 256)
      [] OTHER           -> PyInt(1)

\* The call made under "if __name__ == '__main__'".
MainArgs ==
    [status_var |-> None, format_var |-> PyList(<<"TV">>),
     year_var |-> PyInt(2024), season_var |-> PyStr("SUMMER")]

-----------------------------------------------------------------------------
(* Inputs: arguments, responses, rows *)

\* Marks a key the title record does not have (used only to build records).
Absent == [t |-> "absent"]

RomajiChoices  == {Absent, None, PyStr(<<82>>)}                  \* "R"
EnglishChoices == {Absent, None, PyStr(<<66>>), PyStr(<<97>>)}   \* "B", "a"
YearChoices    == {None, PyInt(2024)}
MonthChoices   == {None, PyInt(7)}
DayChoices     == {None, PyInt(3)}

mk_title(r, e) ==
    [k \in ({"native"} \cup (IF r = Absent THEN {} ELSE {"romaji"})
                       \cup (IF e = Absent THEN {} ELSE {"english"})) |->
        CASE k = "romaji"  -> r
          [] k = "english" -> e
          [] OTHER         -> None]

start_dates ==
    {[year |-> y, month |-> m, day |-> d] :
        y \in YearChoices, m \in MonthChoices, d \in DayChoices}

\* The dates with at most one component unset.
main_dates ==
    {sd \in start_dates :
        Cardinality({k \in {"year", "month", "day"} : sd[k] = None}) <= 1}

\* Well-formed media entries: a title record and a startDate record with the
\* three keys. Every title shape comes with every date that has at most one
\* component unset, and one title shape with every date.
Elements ==
    {[title |-> mk_title(r, e), startDate |-> sd] :
        r \in RomajiChoices, e \in EnglishChoices, sd \in main_dates}
    \cup {[title |-> mk_title(PyStr(<<82>>), None), startDate |-> sd] : sd \in start_dates}

SeqsUpTo(S, n) == UNION {[1..k -> S] : k \in 0..n}

envelope(media) == [data |-> [Page |-> [media |-> media]]]

Bodies == {envelope(m) : m \in SeqsUpTo(Elements, MaxMedia)}

\* A body that is in neither order of its English titles when sorted.
SampleBody ==
    envelope(<<[title |-> mk_title(PyStr(<<82>>), PyStr(<<97>>)),
                startDate |-> [year |-> PyInt(2024), month |-> PyInt(7), day |-> PyInt(3)]],
               [title |-> mk_title(None, PyStr(<<66>>)),
                startDate |-> [year |-> None, month |-> PyInt(7), day |-> PyInt(3)]]>>)

ErrorStatuses == {404, 500}

\* Responses of a run of the script: any body with status 200 (a JSON null
\* included), and error statuses with or without a usable body.
Responses ==
    {[status_code |-> 200, body |-> b] : b \in Bodies \cup {None}}
        \cup {[status_code |-> c, body |-> b] : c \in ErrorStatuses, b \in {None, SampleBody}}

SmallResponses ==
    {[status_code |-> 200, body |-> SampleBody], [status_code |-> 404, body |-> None]}

\* Arguments of extract_graphql_data: omitted (None), falsy, and truthy values.
Args ==
    [status_var : {None, PyList(<<>>), PyList(<<"FINISHED">>)},
     format_var : {None, PyList(<<"TV">>)},
     year_var   : {None, PyInt(0), PyInt(2023), PyInt(2025)},
     season_var : {None, PyStr(""), PyStr("WINTER")}]

\* Rows for direct calls of tabulate_anichart_data.
Rows ==
    {<<PyStr(r), PyStr(e), PyStr(d)>> :
        r \in {<<>>, <<82>>}, e \in {<<>>, <<66>>, <<97>>},
        d \in {<<51, 46, 55, 46, 50, 48, 50, 52>>, <<49, 46, 49, 46, 49, 57, 57, 57>>}}

RowLists == SeqsUpTo(Rows, MaxMedia)

-----------------------------------------------------------------------------
(* State machine *)

Init ==
    /\ Variables = DefaultVariables
    /\ pc = "start"
    /\ args = None
    /\ history = <<>>
    /\ request = None
    /\ response = None
    /\ response_data = None
    /\ extracted_elements = <<>>
    /\ processed_data = <<>>
    /\ data_set = <<>>
    /\ clipboard = <<>>
    /\ clip_writes = 0
    /\ stdout = <<>>
    /\ trace = <<>>
    /\ exit_status = None

\* extract_graphql_data up to the point where requests.post has sent the
\* request: the four overrides, then query_graphql builds and posts the payload.
enter(a) ==
    /\ pc \in {"start", "returned"}
    /\ args' = a
    /\ history' = Append(history, a)
    /\ Variables' = overwrite(Variables, a)
    /\ request' = request_data(QUERY_STRING, Variables', GRAPH_QL_URL)
    /\ response' = None
    /\ response_data' = None
    /\ extracted_elements' = <<>>
    /\ processed_data' = <<>>
    /\ data_set' = <<>>
    /\ clip_writes' = 0
    /\ stdout' = <<>>
    /\ trace' = <<"extract_graphql_data", "query_graphql">>
    /\ pc' = "awaiting"
    /\ UNCHANGED <<clipboard, exit_status>>

\* The script run: python read_graphql.py.
Main ==
    /\ pc = "start"
    /\ enter(MainArgs)

\* A call of extract_graphql_data by an importing program.
Call(a) ==
    /\ Len(history) < MaxCalls
    /\ enter(a)

\* tabulate_anichart_data(rows): prints, copies, prints.
tabulate(rows, called_from, copies) ==
    /\ data_set' = rows
    /\ stdout' = tabulate_prints(rows)
    /\ clipboard' = string_to_copy(rows, <<>>)
    /\ clip_writes' = copies + 1
    /\ trace' = called_from \o <<"tabulate_anichart_data">>

\* requests.post returns; the rest of query_graphql and of
\* extract_graphql_data runs to the end.
Respond(r) ==
    /\ pc = "awaiting"
    /\ response' = r
    /\ response_data' = query_graphql(r.status_code, r.body)
    /\ IF response_data' = None
       THEN /\ stdout' = <<NoDataMessage>>
            /\ exit_status' = exit_code(None)
            /\ pc' = "exited"
            /\ UNCHANGED <<extracted_elements, processed_data, data_set,
                           clipboard, clip_writes, trace>>
       ELSE /\ extracted_elements' = extract_loop(response_data'.data.Page.media, <<>>)
            /\ processed_data' = process_graphql(response_data')
            /\ tabulate(processed_data', trace \o <<"process_graphql">>, clip_writes)
            /\ pc' = "returned"
            /\ UNCHANGED exit_status
    /\ UNCHANGED <<Variables, args, history, request>>

\* requests.post raises (DNS failure, refused connection, timeout): nothing
\* catches it and the interpreter ends with a traceback.
TransportError ==
    /\ pc = "awaiting"
    /\ pc' = "crashed"
    /\ exit_status' = PyInt(1)
    /\ UNCHANGED <<Variables, args, history, request, response, response_data,
                   extracted_elements, processed_data, data_set, clipboard,
                   clip_writes, stdout, trace>>

\* A direct call of tabulate_anichart_data.
CallTabulate(rows) ==
    /\ pc = "start"
    /\ tabulate(rows, <<>>, 0)
    /\ pc' = "returned"
    /\ UNCHANGED <<Variables, args, history, request, response, response_data,
                   extracted_elements, processed_data, exit_status>>

\* One run of the script, with every response the server can give.
Receive ==
    /\ pc = "awaiting"
    /\ \E r \in Responses : Respond(r)

Next ==
    \/ Main
    \/ Receive
    \/ TransportError

Spec == Init /\ [][Next]_vars

\* A program that imports the module and calls extract_graphql_data repeatedly.
CallAny ==
    /\ pc \in {"start", "returned"}
    /\ \E a \in Args : Call(a)

ReceiveSmall ==
    /\ pc = "awaiting"
    /\ \E r \in SmallResponses : Respond(r)

NextCalls ==
    \/ CallAny
    \/ ReceiveSmall

SpecCalls == Init /\ [][NextCalls]_vars

\* A program that calls tabulate_anichart_data on a list of rows.
TabulateAny ==
    /\ pc = "start"
    /\ \E rows \in RowLists : CallTabulate(rows)

NextTabulate == TabulateAny

SpecTabulate == Init /\ [][NextTabulate]_vars

-----------------------------------------------------------------------------
(* Vocabulary of the properties *)

\* The media list of the response that was processed.
Media == response.body.data.Page.media

Processed == pc = "returned" /\ response # None

InTrace(f) == \E i \in 1..Len(trace) : trace[i] = f

Perms(n) == {p \in [1..n -> 1..n] : \A i, j \in 1..n : p[i] = p[j] => i = j}

\* a <= b in lexicographic code point order.
LexLE(a, b) ==
    \/ /\ Len(a) <= Len(b)
       /\ \A i \in 1..Len(a) : a[i] = b[i]
    \/ \E k \in 1..Len(a) :
          /\ k <= Len(b)
          /\ \A i \in 1..(k - 1) : a[i] = b[i]
          /\ a[k] < b[k]

English(row) == row[2].v

NonDecreasing(rows) ==
    \A i, j \in 1..Len(rows) : i < j => LexLE(English(rows[i]), English(rows[j]))

\* The value under a title key, None when the key is absent.
TitleOrNone(title, key) == IF key \in DOMAIN title THEN title[key] ELSE None

AnyUnset(sd) == sd.year = None \/ sd.month = None \/ sd.day = None

FallbackDate == PyStr(<<49, 46, 49, 46, 49, 57, 57, 57>>)    \* "1.1.1999"
July3rd2024 == PyStr(<<51, 46, 55, 46, 50, 48, 50, 52>>)     \* "3.7.2024"

ArgOf(a, k) ==
    CASE k = "status" -> a.status_var
      [] k = "format" -> a.format_var
      [] k = "year"   -> a.year_var
      [] k = "season" -> a.season_var

\* The most recent truthy argument given for key k, the default if none was.
MostRecent(k) ==
    LET given == {i \in 1..Len(history) : Truthy(ArgOf(history[i], k))}
    IN  IF given = {} THEN DefaultVariables[k]
        ELSE ArgOf(history[CHOOSE i \in given : \A j \in given : j <= i], k)

RECURSIVE Flatten(_)
Flatten(lines) == IF lines = <<>> THEN <<>> ELSE Head(lines) \o Flatten(Tail(lines))

\* "romaji \t english \t date \n"
Line(row) ==
    row[1].v \o <<32, 9, 32>> \o row[2].v \o <<32, 9, 32>> \o row[3].v \o <<32, 10>>

-----------------------------------------------------------------------------
(* Properties *)

\* C1: a well-formed response yields exactly one row per media entry: as many
\* rows are extracted and returned as there are entries, and the returned rows
\* are the extracted rows rearranged, none dropped or duplicated.
C1_OneRowPerEntry ==
    Processed =>
        /\ Len(extracted_elements) = Len(Media)
        /\ Len(processed_data) = Len(Media)
        /\ \E p \in Perms(Len(Media)) :
              \A i \in 1..Len(Media) : processed_data[i] = extracted_elements[p[i]]

C1_Witness ==
    /\ Processed
    /\ Len(Media) = 2
    /\ Len(processed_data) = 2
    /\ "english" \notin DOMAIN Media[1].title
    /\ "romaji" \in DOMAIN Media[1].title
    /\ Media[1].title.romaji = None
    /\ Media[2].startDate.month = None

\* C2: the date of an entry's row is day.month.year of the entry's own
\* startDate when all three components are set, and "1.1.1999" as soon as any
\* one of them is None.
C2_DateField ==
    Processed =>
        \A i \in 1..Len(Media) :
            LET sd == Media[i].startDate
                date == extracted_elements[i][3]
            IN  /\ AnyUnset(sd) => date = FallbackDate
                /\ ~AnyUnset(sd) =>
                      date = PyStr(IntToText(sd.day.v) \o <<46>> \o IntToText(sd.month.v)
                                     \o <<46>> \o IntToText(sd.year.v))
                /\ sd = [year |-> PyInt(2024), month |-> PyInt(7), day |-> PyInt(3)]
                      => date = July3rd2024

C2_Witness ==
    /\ Processed
    /\ Len(Media) = 2
    /\ Media[1].startDate = [year |-> None, month |-> PyInt(7), day |-> PyInt(3)]
    /\ extracted_elements[1][3] = FallbackDate
    /\ ~AnyUnset(Media[2].startDate)
    /\ extracted_elements[2][3] = July3rd2024

\* C3: each of the romaji and English fields of a row is the entry's title
\* when the key is present and not None and "" otherwise; entries that differ
\* only in a title key being absent or None yield the same row.
C3_Titles ==
    Processed =>
        /\ \A i \in 1..Len(Media) :
              LET r == TitleOrNone(Media[i].title, "romaji")
                  e == TitleOrNone(Media[i].title, "english")
              IN  /\ extracted_elements[i][1] = IF r = None THEN PyStr(<<>>) ELSE r
                  /\ extracted_elements[i][2] = IF e = None THEN PyStr(<<>>) ELSE e
        /\ \A i, j \in 1..Len(Media) :
              (/\ TitleOrNone(Media[i].title, "romaji") = TitleOrNone(Media[j].title, "romaji")
               /\ TitleOrNone(Media[i].title, "english") = TitleOrNone(Media[j].title, "english")
               /\ Media[i].startDate = Media[j].startDate)
                  => extracted_elements[i] = extracted_elements[j]

C3_Witness ==
    /\ Processed
    /\ Len(Media) = 2
    /\ "english" \notin DOMAIN Media[1].title
    /\ "english" \in DOMAIN Media[2].title
    /\ Media[2].title.english = None
    /\ TitleOrNone(Media[1].title, "romaji") = PyStr(<<82>>)
    /\ TitleOrNone(Media[2].title, "romaji") = PyStr(<<82>>)
    /\ Media[1].startDate = Media[2].startDate
    /\ extracted_elements[1] = extracted_elements[2]
    /\ extracted_elements[1][1] = PyStr(<<82>>)
    /\ extracted_elements[1][2] = PyStr(<<>>)

\* C4: the rows handed to tabulate_anichart_data are the extracted rows in
\* non-decreasing code point order of the English title, rows with an empty
\* English title first, rows with equal English titles in response order.
C4_StableSort ==
    (Processed /\ InTrace("tabulate_anichart_data")) =>
        /\ Len(data_set) = Len(extracted_elements)
        /\ NonDecreasing(data_set)
        /\ \A i, j \in 1..Len(data_set) :
              (English(data_set[i]) = <<>> /\ English(data_set[j]) # <<>>) => i < j
        /\ \E p \in Perms(Len(data_set)) :
              /\ \A i \in 1..Len(data_set) : data_set[i] = extracted_elements[p[i]]
              /\ \A i, j \in 1..Len(data_set) :
                    (i < j /\ English(data_set[i]) = English(data_set[j])) => p[i] < p[j]

C4_Witness ==
    /\ Processed
    /\ Len(extracted_elements) = 2
    /\ English(extracted_elements[1]) = <<97>>
    /\ English(extracted_elements[2]) = <<66>>
    /\ data_set = <<extracted_elements[2], extracted_elements[1]>>

C4_WitnessEqualTitles ==
    /\ Processed
    /\ Len(extracted_elements) = 2
    /\ English(extracted_elements[1]) = English(extracted_elements[2])
    /\ extracted_elements[1] # extracted_elements[2]
    /\ data_set = extracted_elements

\* C5 as stated: process_graphql returns the rows in input order, row i
\* belonging to media entry i.
C5_InputOrder ==
    Processed => processed_data = extracted_elements

\* C5 amended: process_graphql itself returns the rows sorted by English
\* title; they are in input order exactly when the entries arrive in
\* non-decreasing order of English title, and the returned list is handed to
\* tabulate_anichart_data as it is.
C5_SortedOnReturn ==
    Processed =>
        /\ NonDecreasing(processed_data)
        /\ (processed_data = extracted_elements) <=> NonDecreasing(extracted_elements)
        /\ data_set = processed_data

C5_Witness ==
    /\ Processed
    /\ Len(processed_data) = 2
    /\ ~NonDecreasing(extracted_elements)
    /\ processed_data # extracted_elements

\* C6: when the response status is not 200, query_graphql returns None,
\* process_graphql and tabulate_anichart_data are not entered, nothing is
\* copied to the clipboard, the only output is the no-data message and the
\* process ends; they are entered only after a status 200.
C6_Non200 ==
    /\ (response # None /\ response.status_code # 200) =>
          /\ response_data = None
          /\ ~InTrace("process_graphql")
          /\ ~InTrace("tabulate_anichart_data")
          /\ clip_writes = 0
          /\ clipboard = <<>>
          /\ stdout = <<NoDataMessage>>
          /\ pc = "exited"
    /\ (InTrace("process_graphql") \/ InTrace("tabulate_anichart_data")) =>
          (response # None /\ response.status_code = 200)

C6_Witness ==
    /\ response # None
    /\ response.status_code = 404
    /\ response.body # None
    /\ pc = "exited"

\* C7: when the query yields no data, the process ends with a non-zero exit
\* status after the diagnostic message was printed.
C7_NonZeroExit ==
    pc = "exited" =>
        /\ stdout = <<NoDataMessage>>
        /\ exit_status # None
        /\ exit_status.v # 0

\* C8: a call replaces a key of VARIABLES by its argument exactly when the
\* argument is truthy and leaves it as it was otherwise, whatever the other
\* three arguments are; the request posted carries the updated mapping.
C8_Overrides ==
    [][(pc # "awaiting" /\ pc' = "awaiting") =>
          /\ request'.variables = Variables'
          /\ \A k \in Keys :
                IF Truthy(ArgOf(args', k))
                THEN request'.variables[k] = ArgOf(args', k)
                ELSE Variables'[k] = Variables[k]]_vars

C8_Witness ==
    /\ pc = "awaiting"
    /\ Len(history) = 2
    /\ args.status_var = PyList(<<>>)
    /\ args.format_var = PyList(<<"TV">>)
    /\ args.year_var = PyInt(0)
    /\ args.season_var = PyStr("")
    /\ request.variables.format = PyList(<<"TV">>)
    /\ request.variables.status = PyList(<<"FINISHED">>)
    /\ request.variables.year = PyInt(2025)
    /\ request.variables.season = PyStr("SUMMER")

\* C9: for the rows given to tabulate_anichart_data, the clipboard holds the
\* concatenation of "romaji \t english \t date \n" in the order given, the
\* same text is printed, the clipboard is written once, and the count printed
\* is the number of rows.
C9_Tabulate ==
    InTrace("tabulate_anichart_data") =>
        /\ clipboard = Flatten([i \in 1..Len(data_set) |-> Line(data_set[i])])
        /\ Len(stdout) = 4
        /\ stdout[2] = clipboard
        /\ clip_writes = 1
        /\ stdout[4] = ElementsPrefix \o IntToText(Len(data_set))
        /\ data_set = <<>> => clipboard = <<>>

C9_Witness ==
    /\ InTrace("tabulate_anichart_data")
    /\ Len(data_set) = 2
    /\ English(data_set[1]) = <<97>>
    /\ English(data_set[2]) = <<>>
    /\ data_set[1][1].v = <<82>>
    /\ clipboard = <<82, 32, 9, 32, 97, 32, 9, 32, 51, 46, 55, 46, 50, 48, 50, 52, 32, 10,
                     32, 9, 32, 32, 9, 32, 49, 46, 49, 46, 49, 57, 57, 57, 32, 10>>

C9_WitnessEmpty ==
    /\ InTrace("tabulate_anichart_data")
    /\ data_set = <<>>
    /\ stdout[4] = ElementsPrefix \o <<48>>

\* C10: overrides persist: after any sequence of calls every key of
\* VARIABLES, and of the request of the latest call, is the most recent
\* truthy argument given for it in any call so far, or the module default if
\* none was given.
C10_Persistent ==
    \A k \in Keys :
        LET latest == MostRecent(k)
        IN  /\ Variables[k] = latest
            /\ request # None => request.variables[k] = latest

C10_Witness ==
    /\ Len(history) = 2
    /\ history[1].year_var = PyInt(2023)
    /\ history[2].year_var = None
    /\ history[1].season_var = PyStr("WINTER")
    /\ history[2].season_var = PyStr("")
    /\ pc = "awaiting"
    /\ request.variables.year = PyInt(2023)
    /\ request.variables.season = PyStr("WINTER")

====
